---- MODULE Spec2Model ----
(***************************************************************************)
(* A model of the Wildberries private-API client:                          *)
(*   api/models.py  Product: derived views, CDN image addressing and the  *)
(*                  concurrent image download pipeline;                    *)
(*   api/main.py    WildberriesClient: listing fetch and download entry    *)
(*                  points.                                                *)
(*                                                                         *)
(* Python values are represented as follows.                               *)
(*   Optional[T]      the empty set (None / missing key) or {v};           *)
(*   an f-string      the record of the values put into its holes (the     *)
(*                    template is fixed, so the record determines the      *)
(*                    text);                                               *)
(*   str(n)           the sequence of the decimal digits of n;             *)
(*   a dict built by  a sequence of <<key, value>> pairs in insertion      *)
(*   insertion        order.                                               *)
(***************************************************************************)
EXTENDS Integers, Sequences, FiniteSets, TLC

VARIABLES
    product,    \* the Product object the caller holds (a set: empty before construction)
    view,       \* the Product view method called last ("none" before any call)
    out,        \* the value that call returned
    entry,      \* the public coroutine the caller is running ("none" when idle)
    pc,         \* where that coroutine stands
    args,       \* its arguments
    exc,        \* the exception it raised to its caller (a set: empty when none)
    retval,     \* the value it returned (a set: empty before it returns)
    frame,      \* the activation of download_images_by_size (a set: empty when not running)
    listing,    \* the listing response get_product received (a set: empty before it)
    batch,      \* the running activation of download_all_images (a set: empty when none)
    returned,   \* the activation of download_all_images that returned last (a set)
    tasks,      \* the _download_single_image tasks of the running batch
    requests,   \* every GET issued to the image CDN, in order
    dirs,       \* directories created on disk
    files       \* files on disk: a set of [path, content] records

viewVars == <<view, out>>
pipeVars == <<entry, pc, args, exc, retval, frame, listing, batch, returned, tasks,
              requests, dirs, files>>
vars     == <<product, view, out, entry, pc, args, exc, retval, frame, listing, batch,
              returned, tasks, requests, dirs, files>>

(***************************************************************************)
(* Python values                                                           *)
(***************************************************************************)
None      == {}
Some(v)   == {v}
Val(o)    == CHOOSE v \in o : TRUE
\* dict.get(key, default) on a field that is None when the key is missing
Get(o, default) == IF o = None THEN default ELSE Val(o)

Min(a, b) == IF a <= b THEN a ELSE b

\* range(a, b) as a list
Range(a, b) == [k \in 1..(IF b > a THEN b - a ELSE 0) |-> a + k - 1]

\* lst[:n] for n >= 0
Prefix(lst, n) == SubSeq(lst, 1, Min(n, Len(lst)))

\* str(n) for n >= 0: the decimal digits, most significant first
RECURSIVE str(_)
str(n) == IF n < 10 THEN <<n>> ELSE Append(str(n \div 10), n % 10)

\* int(s) for a non-empty digit string
RECURSIVE int(_)
int(s) == IF Len(s) = 1 THEN s[1]
          ELSE 10 * int(SubSeq(s, 1, Len(s) - 1)) + s[Len(s)]

\* s[:-k]
DropLast(s, k) == SubSeq(s, 1, Len(s) - k)

(***************************************************************************)
(* Product.__init__                                                        *)
(***************************************************************************)
\* product_data is the raw record: every field is None when its key is missing.
Product(product_data) ==
    [id    |-> product_data.id,
     pics  |-> Get(product_data.pics, 0),
     sizes |-> Get(product_data.sizes, <<>>)]

\* Python truthiness of an Optional[int]
TruthyInt(o) == o # None /\ Val(o) # 0

(***************************************************************************)
(* Product.get_main_image_url                                              *)
(***************************************************************************)
basket_main(id) ==
    IF id <= 143 THEN "01"
    ELSE IF id <= 287 THEN "02"
    ELSE IF id <= 431 THEN "03"
    ELSE IF id <= 719 THEN "04"
    ELSE IF id <= 1007 THEN "05"
    ELSE IF id <= 1061 THEN "06"
    ELSE IF id <= 1115 THEN "07"
    ELSE IF id <= 1169 THEN "08"
    ELSE IF id <= 1313 THEN "09"
    ELSE IF id <= 1601 THEN "10"
    ELSE IF id <= 1655 THEN "11"
    ELSE IF id <= 1919 THEN "12"
    ELSE IF id <= 2045 THEN "13"
    ELSE IF id <= 2189 THEN "14"
    ELSE IF id <= 2405 THEN "15"
    ELSE "16"

vol_main(id_str) == IF Len(id_str) > 5 THEN int(DropLast(id_str, 5)) ELSE 0

part_main(id_str, id) == IF Len(id_str) > 3 THEN int(DropLast(id_str, 3)) ELSE id

\* f"https://basket-{basket}.wbbasket.ru/vol{vol}/part{part}/{id}/images/{size}/{i}.webp"
ImageUrl(b, v, p, id, size, i) ==
    [basket |-> b, vol |-> v, part |-> p, id |-> id, size |-> size, index |-> i]

get_main_image_url(self, size) ==
    IF self.pics # 0 /\ self.pics > 0 /\ TruthyInt(self.id)
    THEN LET id     == Val(self.id)
             id_str == str(id)
         IN  Some(ImageUrl(basket_main(id), vol_main(id_str), part_main(id_str, id),
                           id, size, 1))
    ELSE None

(***************************************************************************)
(* Product.get_all_images_urls                                             *)
(***************************************************************************)
basket_all_strict(id) ==
    IF id < 143 THEN "01"
    ELSE IF id < 287 THEN "02"
    ELSE IF id < 431 THEN "03"
    ELSE IF id < 719 THEN "04"
    ELSE IF id < 1007 THEN "05"
    ELSE IF id < 1061 THEN "06"
    ELSE IF id < 1115 THEN "07"
    ELSE IF id < 1169 THEN "08"
    ELSE IF id < 1313 THEN "09"
    ELSE IF id < 1601 THEN "10"
    ELSE IF id < 1655 THEN "11"
    ELSE IF id < 1919 THEN "12"
    ELSE IF id < 2045 THEN "13"
    ELSE IF id < 2189 THEN "14"
    ELSE IF id < 2405 THEN "15"
    ELSE "16"

basket_all(id) ==
    IF id <= 143 THEN "01"
    ELSE IF id <= 287 THEN "02"
    ELSE IF id <= 431 THEN "03"
    ELSE IF id <= 719 THEN "04"
    ELSE IF id <= 1007 THEN "05"
    ELSE IF id <= 1061 THEN "06"
    ELSE IF id <= 1115 THEN "07"
    ELSE IF id <= 1169 THEN "08"
    ELSE IF id <= 1313 THEN "09"
    ELSE IF id <= 1601 THEN "10"
    ELSE IF id <= 1655 THEN "11"
    ELSE IF id <= 1919 THEN "12"
    ELSE IF id <= 2045 THEN "13"
    ELSE IF id <= 2189 THEN "14"
    ELSE IF id <= 2405 THEN "15"
    ELSE "16"

vol_all(id_str) == IF Len(id_str) > 5 THEN int(DropLast(id_str, 5)) ELSE 0

\* a slip of the slice bound: id_str[:-2]
part_all_slip(id_str, id) == IF Len(id_str) > 3 THEN int(DropLast(id_str, 2)) ELSE id

part_all(id_str, id) == IF Len(id_str) > 3 THEN int(DropLast(id_str, 3)) ELSE id

\* range(1, min(pics + 1, 15)) with the cap forgotten
image_indices_uncapped(pics) == Range(1, pics + 1)

\* range(1, min(self.pics + 1, 15))
image_indices(pics) == Range(1, Min(pics + 1, 15))

get_all_images_urls(self, size) ==
    IF self.pics # 0 /\ self.pics > 0 /\ TruthyInt(self.id)
    THEN LET id      == Val(self.id)
             id_str  == str(id)
             b       == basket_all(id)
             v       == vol_all(id_str)
             p       == part_all(id_str, id)
             indices == image_indices(self.pics)
         IN  [k \in 1..Len(indices) |-> ImageUrl(b, v, p, id, size, indices[k])]
    ELSE <<>>

(***************************************************************************)
(* The state in which no coroutine runs and the disk is empty              *)
(***************************************************************************)
PipeIdle ==
    /\ entry = "none"
    /\ pc = "idle"
    /\ args = None
    /\ exc = None
    /\ retval = None
    /\ frame = None
    /\ listing = None
    /\ batch = None
    /\ returned = None
    /\ tasks = <<>>
    /\ requests = <<>>
    /\ dirs = {}
    /\ files = {}

(***************************************************************************)
(* SpecUrl: the image-address views of a constructed product               *)
(***************************************************************************)
MaxId   == 2500     \* identifiers 1..MaxId cover every bucket boundary
MaxPics == 16       \* image counts -1..MaxPics straddle the cap of 14

\* identifiers with more than 3 and more than 5 digits
LongIds == {9999, 10000, 99999, 100000, 100001, 1234567, 12345678, 241779009}

UrlProducts ==
    {Product([id |-> Some(i), pics |-> Some(n), sizes |-> None]) :
        i \in (1..MaxId) \cup LongIds, n \in {1, 3}}
    \cup
    {Product([id |-> i, pics |-> n, sizes |-> None]) :
        i \in {None, Some(1), Some(143), Some(12345678)},
        n \in {None, Some(20)} \cup {Some(k) : k \in (-1)..MaxPics}}

InitUrl ==
    /\ product \in {Some(p) : p \in UrlProducts}
    /\ view = "none"
    /\ out = None
    /\ PipeIdle

Call_get_main_image_url(size) ==
    /\ product # None
    /\ view = "none"
    /\ view' = "get_main_image_url"
    /\ out' = get_main_image_url(Val(product), size)
    /\ UNCHANGED <<product, pipeVars>>

Call_get_all_images_urls(size) ==
    /\ product # None
    /\ view = "none"
    /\ view' = "get_all_images_urls"
    /\ out' = get_all_images_urls(Val(product), size)
    /\ UNCHANGED <<product, pipeVars>>

NextUrl ==
    \/ \E size \in {"c516x688"} : Call_get_main_image_url(size)
    \/ \E size \in {"c516x688", "tm"} : Call_get_all_images_urls(size)

SpecUrl == InitUrl /\ [][NextUrl]_vars

(***************************************************************************)
(* C5-C7: the CDN address of an image                                      *)
(***************************************************************************)
\* the documented ascending table of (upper bound, bucket label)
BucketTable ==
    << [bound |-> 143,  label |-> "01"], [bound |-> 287,  label |-> "02"],
       [bound |-> 431,  label |-> "03"], [bound |-> 719,  label |-> "04"],
       [bound |-> 1007, label |-> "05"], [bound |-> 1061, label |-> "06"],
       [bound |-> 1115, label |-> "07"], [bound |-> 1169, label |-> "08"],
       [bound |-> 1313, label |-> "09"], [bound |-> 1601, label |-> "10"],
       [bound |-> 1655, label |-> "11"], [bound |-> 1919, label |-> "12"],
       [bound |-> 2045, label |-> "13"], [bound |-> 2189, label |-> "14"],
       [bound |-> 2405, label |-> "15"] >>

\* the label of the smallest upper bound >= id, the overflow label past every bound
TableLabel(id) ==
    LET above == {k \in 1..Len(BucketTable) : BucketTable[k].bound >= id}
    IN  IF above = {} THEN "16"
        ELSE LET least == CHOOSE k \in above :
                              \A j \in above : BucketTable[k].bound <= BucketTable[j].bound
             IN  BucketTable[least].label

\* the URLs the last address view returned, as a set
UrlsOut ==
    IF view = "get_all_images_urls" THEN {out[k] : k \in 1..Len(out)}
    ELSE IF view = "get_main_image_url" THEN out
    ELSE {}

\* C5: for every positive identifier the bucket label in every image URL (of
\* get_all_images_urls and of get_main_image_url) is the label of the smallest
\* table bound >= id, and "16" when id exceeds every bound; so the label
\* changes exactly between a bound and the identifier one past it.
C5_BucketLabel ==
    \A u \in UrlsOut :
        /\ u.id = Val(Val(product).id)
        /\ u.id > 0
        /\ u.basket = TableLabel(u.id)

\* the identifier one past the first bound resolves to the second bucket
C5_Witness ==
    /\ view = "get_all_images_urls"
    /\ Val(product).id = Some(144)
    /\ Len(out) > 0
    /\ out[1].basket = "02"

\* C6: volume is id without its last 5 decimal digits (floor(id / 100000), 0 for
\* up to 5 digits); part is id without its last 3 decimal digits
\* (floor(id / 1000)) when id has more than 3 digits, and id itself otherwise.
C6_VolumePart ==
    \A u \in UrlsOut :
        /\ u.vol = u.id \div 100000
        /\ u.part = (IF u.id >= 1000 THEN u.id \div 1000 ELSE u.id)

\* id = 12345678 gives volume 123 and part 12345
C6_Witness ==
    /\ view = "get_all_images_urls"
    /\ Val(product).id = Some(12345678)
    /\ Len(out) > 0
    /\ out[1].vol = 123
    /\ out[1].part = 12345

RECURSIVE GCD(_, _)
GCD(a, b) == IF b = 0 THEN a ELSE GCD(b, a % b)

Abs(n) == IF n < 0 THEN -n ELSE n

Frac(n, d) ==
    LET g == GCD(Abs(n), Abs(d))
    IN  [num |-> n \div g, den |-> d \div g]

FSub(x, y) == Frac(x.num * y.den - y.num * x.den, x.den * y.den)
FDiv(x, y) == Frac(x.num * y.den, x.den * y.num)
FMul(x, n) == Frac(x.num * n, x.den)
FGt(x, y)  == x.num * y.den > y.num * x.den

\* Python truthiness of an Optional[float]
TruthyFloat(o) == o # None /\ Val(o).num # 0

\* int(x): truncation, where round(x) was meant
round_trunc(x) == {x.num \div x.den}

\* round(x) for x >= 0: the nearest integer.  Exactly half way between two
\* integers the float that reaches round() carries the rounding error of the
\* two divisions by 100 (200/199 gives 0.5000000000000004 and 1, 8/7 gives
\* 12.499999999999993 and 12), so either neighbour can be the result.
round(x) ==
    LET q == x.num \div x.den
        r == x.num % x.den
    IN  IF 2 * r < x.den THEN {q}
        ELSE IF 2 * r > x.den THEN {q + 1}
        ELSE {q, q + 1}

(***************************************************************************)
(* Product.get_price, get_basic_price, get_discount_percent                *)
(***************************************************************************)
\* {} as the default of size.get('price', {}): every key missing
EmptyDict == [basic |-> None, product |-> None]

get_price(self) ==
    IF self.sizes # <<>> /\ Len(self.sizes) > 0
    THEN LET price_data    == Get(self.sizes[1].price, EmptyDict)
             product_price == Get(price_data.product, 0)
         IN  IF product_price # 0 THEN Some(Frac(product_price, 100)) ELSE None
    ELSE None

get_basic_price(self) ==
    IF self.sizes # <<>> /\ Len(self.sizes) > 0
    THEN LET price_data  == Get(self.sizes[1].price, EmptyDict)
             basic_price == Get(price_data.basic, 0)
         IN  IF basic_price # 0 THEN Some(Frac(basic_price, 100)) ELSE None
    ELSE None

\* the set of values the call can return (one value, two on a rounding tie)
get_discount_percent(self) ==
    LET basic_price   == get_basic_price(self)
        current_price == get_price(self)
    IN  IF /\ TruthyFloat(basic_price)
           /\ TruthyFloat(current_price)
           /\ FGt(Val(basic_price), Val(current_price))
        THEN LET discount ==
                     FMul(FDiv(FSub(Val(basic_price), Val(current_price)),
                               Val(basic_price)), 100)
             IN  {Some(n) : n \in round(discount)}
        ELSE {None}

(***************************************************************************)
(* Product.get_available_sizes                                             *)
(***************************************************************************)
\* only the first warehouse looked at
first_in_stock(stocks) == stocks # <<>> /\ Get(stocks[1].qty, 0) > 0

\* any(stock.get('qty', 0) > 0 for stock in stocks)
any_in_stock(stocks) == \E k \in 1..Len(stocks) : Get(stocks[k].qty, 0) > 0

\* size.get('name', size.get('origName', ''))
size_name(size) == Get(size.name, Get(size.origName, ""))

RECURSIVE get_available_sizes_from(_, _, _)
get_available_sizes_from(sizes, k, available_sizes) ==
    IF k > Len(sizes) THEN available_sizes
    ELSE LET size   == sizes[k]
             stocks == Get(size.stocks, <<>>)
         IN  IF any_in_stock(stocks) /\ size_name(size) # "" /\ size_name(size) # "0"
             THEN get_available_sizes_from(sizes, k + 1,
                                           Append(available_sizes, size_name(size)))
             ELSE get_available_sizes_from(sizes, k + 1, available_sizes)

get_available_sizes(self) == get_available_sizes_from(self.sizes, 1, <<>>)

(***************************************************************************)
(* SpecPrice: the price views of a constructed product                     *)
(***************************************************************************)
MaxAmount == 30     \* minor-unit amounts 0..MaxAmount, plus the documented ones

Amounts == (0..MaxAmount) \cup {15000, 15050, 20000}

SizeEntry(name, origName, stocks, price) ==
    [name |-> name, origName |-> origName, stocks |-> stocks, price |-> price]

PriceBlocks ==
    {None} \cup
    {Some([basic |-> b, product |-> c]) :
        b \in {None} \cup {Some(a) : a \in Amounts},
        c \in {None} \cup {Some(a) : a \in Amounts}}

\* what may follow the first size entry: nothing, or an entry with a discount
PriceTails ==
    {<<>>, <<SizeEntry(Some("L"), None, None, Some([basic |-> Some(300), product |-> Some(100)]))>>}

PriceProducts ==
    {Product([id |-> Some(7), pics |-> Some(1), sizes |-> s]) :
        s \in {None, Some(<<>>)} \cup
              {Some(<<SizeEntry(Some("M"), None, None, pb)>> \o t) :
                  pb \in PriceBlocks, t \in PriceTails}}

InitPrice ==
    /\ product \in {Some(p) : p \in PriceProducts}
    /\ view = "none"
    /\ out = None
    /\ PipeIdle

Call_get_price ==
    /\ product # None
    /\ view = "none"
    /\ view' = "get_price"
    /\ out' = get_price(Val(product))
    /\ UNCHANGED <<product, pipeVars>>

Call_get_basic_price ==
    /\ product # None
    /\ view = "none"
    /\ view' = "get_basic_price"
    /\ out' = get_basic_price(Val(product))
    /\ UNCHANGED <<product, pipeVars>>

Call_get_discount_percent ==
    /\ product # None
    /\ view = "none"
    /\ view' = "get_discount_percent"
    /\ \E r \in get_discount_percent(Val(product)) : out' = r
    /\ UNCHANGED <<product, pipeVars>>

NextPrice ==
    \/ Call_get_price
    \/ Call_get_basic_price
    \/ Call_get_discount_percent

SpecPrice == InitPrice /\ [][NextPrice]_vars

\* the raw minor-unit amount of the first size entry, 0 when it is absent
RawAmount(p, key) ==
    IF p.sizes = <<>> \/ p.sizes[1].price = None THEN 0
    ELSE LET blk == Val(p.sizes[1].price)
             o   == IF key = "basic" THEN blk.basic ELSE blk.product
         IN  IF o = None THEN 0 ELSE Val(o)

\* C8: get_discount_percent returns a value iff the first size entry's basic
\* and current amounts are both present and non-zero and basic > current; the
\* value is then an integer nearest to 100 * (basic - current) / basic; the
\* result is absent when basic is 0, current is absent or there is no size.
C8_DiscountPercent ==
    view = "get_discount_percent" =>
        LET p       == Val(product)
            basic   == RawAmount(p, "basic")
            current == RawAmount(p, "product")
        IN  /\ (out # None) <=> (basic # 0 /\ current # 0 /\ basic > current)
            /\ out # None =>
                   2 * Abs(100 * (basic - current) - Val(out) * basic) <= basic

\* basic 20000 and current 15000 give 25
C8_Witness ==
    /\ view = "get_discount_percent"
    /\ RawAmount(Val(product), "basic") = 20000
    /\ RawAmount(Val(product), "product") = 15000
    /\ out = Some(25)

(***************************************************************************)
(* SpecSizes: the stock view of a constructed product                      *)
(***************************************************************************)
MaxSizes == 2       \* size entries per product

Stock(qty) == [wh |-> 507, qty |-> qty]

\* the stock lists of a size entry: missing, empty, all zero, partly zero
StockLists ==
    {None, Some(<<>>), Some(<<Stock(Some(0))>>), Some(<<Stock(None)>>),
     Some(<<Stock(Some(3))>>), Some(<<Stock(Some(0)), Stock(Some(0))>>),
     Some(<<Stock(Some(0)), Stock(Some(2))>>), Some(<<Stock(Some(1)), Stock(Some(0))>>)}

\* the labels of a size entry: name and origName, each possibly missing
SizeLabels ==
    {<<None, None>>, <<None, Some("L")>>, <<Some(""), Some("L")>>,
     <<Some("0"), Some("L")>>, <<Some("M"), Some("L")>>, <<Some("S"), None>>}

SizeEntries ==
    {SizeEntry(l[1], l[2], st, None) : l \in SizeLabels, st \in StockLists}

SeqsUpTo(S, n) == UNION {[1..k -> S] : k \in 0..n}

SizesProducts ==
    {Product([id |-> Some(7), pics |-> Some(1), sizes |-> s]) :
        s \in {None} \cup {Some(q) : q \in SeqsUpTo(SizeEntries, MaxSizes)}}

InitSizes ==
    /\ product \in {Some(p) : p \in SizesProducts}
    /\ view = "none"
    /\ out = None
    /\ PipeIdle

Call_get_available_sizes ==
    /\ product # None
    /\ view = "none"
    /\ view' = "get_available_sizes"
    /\ out' = get_available_sizes(Val(product))
    /\ UNCHANGED <<product, pipeVars>>

NextSizes == Call_get_available_sizes

SpecSizes == InitSizes /\ [][NextSizes]_vars

\* the aggregate stock of a size entry: the sum over its warehouse entries
RECURSIVE SumQty(_)
SumQty(stocks) ==
    IF stocks = <<>> THEN 0
    ELSE (IF stocks[1].qty = None THEN 0 ELSE Val(stocks[1].qty)) + SumQty(Tail(stocks))

AggregateStock(e) == IF e.stocks = None THEN 0 ELSE SumQty(Val(e.stocks))

\* the label of a size entry: its name, its original name when it has no name
LabelOf(e) ==
    IF e.name # None THEN Val(e.name)
    ELSE IF e.origName # None THEN Val(e.origName) ELSE ""

Available(e) == AggregateStock(e) # 0 /\ LabelOf(e) # "" /\ LabelOf(e) # "0"

\* C9: get_available_sizes returns, in the order of the size sequence, the
\* labels of exactly the entries whose aggregate stock over all warehouse
\* entries is non-zero and whose label is non-empty and not "0"; an entry with
\* zero aggregate stock never appears, and no sizes give no available sizes.
C9_AvailableSizes ==
    view = "get_available_sizes" =>
        LET sizes == Val(product).sizes
            kept  == SelectSeq(sizes, Available)
        IN  /\ out = [k \in 1..Len(kept) |-> LabelOf(kept[k])]
            /\ sizes = <<>> => out = <<>>

\* two entries, the first out of stock in every warehouse, the second in stock
\* in its second warehouse only
C9_Witness ==
    /\ view = "get_available_sizes"
    /\ Len(Val(product).sizes) = 2
    /\ AggregateStock(Val(product).sizes[1]) = 0
    /\ Val(product).sizes[2].stocks = Some(<<Stock(Some(0)), Stock(Some(2))>>)
    /\ out = <<"M">>

(***************************************************************************)
(* WildberriesClient.get_product                                           *)
(***************************************************************************)
\* An exception object: its class and, for the f-string message of line 24,
\* the product_id put into it (None when the message holds none).
Exception(cls, product_id) == [cls |-> cls, product_id |-> product_id]

\* The classes an exception of class cls is an instance of.  The listing fetch
\* raises curl_cffi's errors from session.get, json.JSONDecodeError (a
\* ValueError) from request.json(), and ValueError itself on line 24.
Mro(cls) ==
    CASE cls = "ValueError"      -> {"ValueError", "Exception"}
      [] cls = "JSONDecodeError" -> {"JSONDecodeError", "ValueError", "Exception"}
      [] cls = "Timeout"         -> {"Timeout", "RequestException", "OSError", "Exception"}
      [] cls = "ConnectionError" -> {"ConnectionError", "RequestException", "OSError", "Exception"}
      [] OTHER                   -> {cls, "Exception"}

\* json_response.get("products") and len(json_response["products"]) > 0
has_products(json_response) ==
    /\ json_response.products # None
    /\ Val(json_response.products) # <<>>
    /\ Len(Val(json_response.products)) > 0

\* The outcome of get_product on a listing response: the exception raised or
\* the Product returned.  response.transport is the error session.get raised
\* (None when it returned); response.json is the decoded body (None when the
\* body is malformed and request.json() raises).
get_product(product_id, response) ==
    IF response.transport # None
    THEN [raised |-> Some(Exception(Val(response.transport), None)), value |-> None]
    ELSE IF response.json = None
    THEN [raised |-> Some(Exception("JSONDecodeError", None)), value |-> None]
    ELSE LET json_response == Val(response.json)
         IN  IF has_products(json_response)
             THEN [raised |-> None,
                   value  |-> Some(Product(Val(json_response.products)[1]))]
             ELSE [raised |-> Some(Exception("ValueError", Some(product_id))),
                   value  |-> None]

(***************************************************************************)
(* Product._download_single_image                                          *)
(*                                                                         *)
(* A task is [url, file_path, state, result, fate]: state is "created",    *)
(* "get" (suspended in session.get), "read" (suspended in response.read)   *)
(* or "done"; result is the value returned (None or the path).  fate is    *)
(* bookkeeping, not program state: what the network and the disk did to    *)
(* the image ("" while undecided, then "ok", or "failed" on a non-success  *)
(* status, a transport error or a write error).                            *)
(***************************************************************************)
\* os.path.join(folder_path, name)
PathJoin(folder_path, name) == [dir |-> folder_path, name |-> name]

\* f"{self.id}_{i}.webp"
FileName(id, i) == [id |-> id, index |-> i, ext |-> "webp"]

\* the payload the CDN serves at url
Payload(url) == [of |-> url, complete |-> TRUE]

\* what a failed f.write leaves in the file open() created
Truncated(url) == [of |-> url, complete |-> FALSE]

\* open(file_path, 'wb') followed by a write of content
WriteFile(fs, file_path, content) ==
    {f \in fs : f.path # file_path} \cup {[path |-> file_path, content |-> content]}

Fate(task, fate) == IF task.fate = "" THEN fate ELSE task.fate

\* the status check dropped
status_any(status) == TRUE

\* response.status == 200
status_ok(status) == status = 200

\* session.get(url) is answered: it raised (caught on line 410) or gave a status
single_image_on_response(task, answer) ==
    IF answer.raised
    THEN [task EXCEPT !.state = "done", !.result = None, !.fate = Fate(task, "failed")]
    ELSE IF status_ok(answer.status)
    THEN [task EXCEPT !.state = "read",
                      !.fate = IF answer.status = 200 THEN task.fate
                               ELSE Fate(task, "failed")]
    ELSE [task EXCEPT !.state = "done", !.result = None, !.fate = Fate(task, "failed")]

\* response.read() is answered, then lines 407-409 run: the new task and disk
single_image_on_body(task, answer, fs) ==
    CASE answer = "read_error" ->
            [task |-> [task EXCEPT !.state = "done", !.result = None,
                                   !.fate = Fate(task, "failed")],
             files |-> fs]
      [] answer = "open_error" ->
            [task |-> [task EXCEPT !.state = "done", !.result = None,
                                   !.fate = Fate(task, "failed")],
             files |-> fs]
      [] answer = "write_error" ->
            [task |-> [task EXCEPT !.state = "done", !.result = None,
                                   !.fate = Fate(task, "failed")],
             files |-> WriteFile(fs, task.file_path, Truncated(task.url))]
      [] OTHER ->
            [task |-> [task EXCEPT !.state = "done", !.result = Some(task.file_path),
                                   !.fate = Fate(task, "ok")],
             files |-> WriteFile(fs, task.file_path, Payload(task.url))]

(***************************************************************************)
(* Product.download_all_images                                             *)
(***************************************************************************)
\* the cap left off the URL list
all_urls(self, image_size, max_images) == get_all_images_urls(self, image_size)

\* self.get_all_images_urls(image_size)[:max_images]
image_urls(self, image_size, max_images) ==
    Prefix(get_all_images_urls(self, image_size), max_images)

\* Path(folder_path).mkdir(parents=True, exist_ok=True)
mkdir(fs_dirs, folder_path) ==
    fs_dirs \cup {SubSeq(folder_path, 1, k) : k \in 1..Len(folder_path)}

\* enumerate(image_urls) left at its default start of 0
create_tasks_from0(self, folder_path, urls) ==
    [k \in 1..Len(urls) |->
        [url       |-> urls[k],
         file_path |-> PathJoin(folder_path, FileName(Val(self.id), k - 1)),
         state     |-> "created",
         result    |-> None,
         fate      |-> ""]]

\* lines 375-380: one task per URL, numbered from 1
create_tasks(self, folder_path, urls) ==
    [k \in 1..Len(urls) |->
        [url       |-> urls[k],
         file_path |-> PathJoin(folder_path, FileName(Val(self.id), k)),
         state     |-> "created",
         result    |-> None,
         fate      |-> ""]]

\* the tasks launched and not awaited: the join released once all have started
gather_launched(ts) == \A k \in 1..Len(ts) : ts[k].state # "created"

\* the join released by the first task to settle
gather_first(ts) == \E k \in 1..Len(ts) : ts[k].state = "done"

\* await asyncio.gather(*tasks, return_exceptions=True) resumes
gather_done(ts) == \A k \in 1..Len(ts) : ts[k].state = "done"

IsPath(task) == task.result # None

\* lines 384-388: the results that are non-empty strings, in task order
downloaded_files(ts) ==
    LET ok == SelectSeq(ts, IsPath)
    IN  [k \in 1..Len(ok) |-> Val(ok[k].result)]

\* an activation of download_all_images that has returned
Activation(folder_path, image_size, max_images, urls, ts, downloaded) ==
    [folder_path |-> folder_path, image_size |-> image_size, max_images |-> max_images,
     image_urls |-> urls, tasks |-> ts, downloaded_files |-> downloaded]

(***************************************************************************)
(* Product.download_images_by_size                                         *)
(***************************************************************************)
\* the preset list with its last entry lost
default_sizes_short == <<"tm", "c246x328", "c516x688">>

\* line 428
default_sizes == <<"tm", "c246x328", "c516x688", "big">>

\* results[size] = downloaded on a dict kept as a list of <<key, value>>
DictSet(d, key, value) ==
    IF \E k \in 1..Len(d) : d[k][1] = key
    THEN [k \in 1..Len(d) |-> IF d[k][1] = key THEN <<key, value>> ELSE d[k]]
    ELSE Append(d, <<key, value>>)

\* The loop of lines 432-435 run from the sizes in queue until an activation of
\* download_all_images suspends in its gather (queue then starts with its size)
\* or the sizes are used up: an activation with no URL returns [] at once.
RECURSIVE download_images_by_size_loop(_, _, _, _, _, _)
download_images_by_size_loop(self, folder_path, max_images, queue, results, ret) ==
    IF queue = <<>> THEN [queue |-> queue, results |-> results, returned |-> ret]
    ELSE LET size        == Head(queue)
             size_folder == Append(folder_path, size)
         IN  IF image_urls(self, size, max_images) = <<>>
             THEN download_images_by_size_loop(
                      self, folder_path, max_images, Tail(queue),
                      DictSet(results, size, <<>>),
                      Some(Activation(size_folder, size, max_images, <<>>, <<>>, <<>>)))
             ELSE [queue |-> queue, results |-> results, returned |-> ret]

RECURSIVE Concat(_)
Concat(d) == IF d = <<>> THEN <<>> ELSE Head(d)[2] \o Concat(Tail(d))

(***************************************************************************)
(* Control: what the running public coroutine does with the value of the   *)
(* download it awaited.  Each of the three formulas below sets pc, retval, *)
(* frame, batch, returned, tasks and dirs.                                 *)
(***************************************************************************)
\* A returned value, whatever its Python type, is kept as one record: the
\* Product (get_product, get_product_with_images), the list of paths
\* (download_all_images, and 'downloaded_files' of download_product_images)
\* and the dict of lists by size (download_images_by_size; 'download_info').
Returned(prod, lst, info) ==
    [product |-> prod, downloaded_files |-> lst, download_info |-> info]

\* the value the public coroutine e returns once its download (through
\* download_images_by_size: via = "by_size") gave value
EntryResult(e, self, via, value) ==
    CASE e = "get_product_with_images" -> Returned(Some(self), <<>>, <<>>)
      [] e = "download_product_images" ->
            IF via = "by_size"
            THEN Returned(None, Concat(value), value)
            ELSE Returned(None, value, <<<<"default", value>>>>)
      [] e = "download_images_by_size" -> Returned(None, <<>>, value)
      [] OTHER -> Returned(None, value, <<>>)

Finish(value, ret) ==
    /\ pc' = "returned"
    /\ retval' = Some(value)
    /\ frame' = None
    /\ batch' = None
    /\ tasks' = <<>>
    /\ returned' = ret
    /\ dirs' = dirs

\* download_all_images up to its gather: lines 370-382
EnterBatch(self, folder_path, image_size, max_images, urls, fr, ret) ==
    /\ pc' = "batch"
    /\ retval' = None
    /\ frame' = fr
    /\ batch' = Some([folder_path |-> folder_path, image_size |-> image_size,
                      max_images |-> max_images, image_urls |-> urls])
    /\ tasks' = create_tasks(self, folder_path, urls)
    /\ returned' = ret
    /\ dirs' = mkdir(dirs, folder_path)

\* download_all_images called by e directly
RunAll(e, self, folder_path, image_size, max_images, ret) ==
    LET urls == image_urls(self, image_size, max_images)
    IN  IF urls = <<>>
        THEN Finish(EntryResult(e, self, "all", <<>>),
                    Some(Activation(folder_path, image_size, max_images, <<>>, <<>>, <<>>)))
        ELSE EnterBatch(self, folder_path, image_size, max_images, urls, None, ret)

\* download_images_by_size continued with the sizes in queue
RunBySize(e, self, folder_path, max_images, queue, results, ret) ==
    LET s == download_images_by_size_loop(self, folder_path, max_images, queue, results, ret)
    IN  IF s.queue = <<>>
        THEN Finish(EntryResult(e, self, "by_size", s.results), s.returned)
        ELSE LET size == Head(s.queue)
             IN  EnterBatch(self, Append(folder_path, size), size, max_images,
                            image_urls(self, size, max_images),
                            Some([queue |-> s.queue, results |-> s.results]), s.returned)

\* lines 427-428 of download_images_by_size
sizes_or_default(sizes) == IF sizes = None THEN default_sizes ELSE Val(sizes)

\* main.py lines 62-66 and 92-106: `if image_sizes:` picks the download
ClientDownload(e, self, images_folder, image_sizes, max_images) ==
    IF image_sizes # None /\ Val(image_sizes) # <<>>
    THEN RunBySize(e, self, images_folder, max_images, Val(image_sizes), <<>>, None)
    ELSE RunAll(e, self, images_folder, "c516x688", max_images, None)

(***************************************************************************)
(* Spec: the client, one product, and its downloads                        *)
(***************************************************************************)
MaxDlPics == 3      \* image counts 0..MaxDlPics of a product that is downloaded
MaxImages == 3      \* max_images arguments 0..MaxImages of a download of one size
MaxImagesBySize == 2        \* ... of a download of a list of sizes the caller gives
MaxImagesDefaultSet == 1    \* ... of a download of the four default sizes

Root == <<"images">>

ProductIds == {"144", "241779009"}

DlProductData ==
    {[id |-> Some(144), pics |-> Some(n), sizes |-> None] : n \in 0..MaxDlPics}
    \cup {[id |-> None, pics |-> Some(2), sizes |-> None]}

ListingResponses ==
    {[transport |-> Some(c), json |-> None] : c \in {"Timeout", "ConnectionError"}}
    \cup {[transport |-> None, json |-> None]}
    \cup {[transport |-> None, json |-> Some([products |-> ps])] :
             ps \in {None, Some(<<>>)} \cup {Some(<<pd>>) : pd \in DlProductData}}
    \cup {[transport |-> None,
           json |-> Some([products |-> Some(<<[id |-> Some(144), pics |-> Some(1), sizes |-> None],
                                              [id |-> Some(288), pics |-> Some(2), sizes |-> None]>>)])]}

SizeLists == {None, Some(<<>>), Some(<<"tm">>), Some(<<"big", "tm">>)}

Args(product_id, download_images, folder, sizes, max_images) ==
    Some([product_id |-> product_id, download_images |-> download_images,
          folder |-> folder, sizes |-> sizes, max_images |-> max_images])

Init ==
    /\ product = None
    /\ view = "none"
    /\ out = None
    /\ PipeIdle

\* nothing runs, and no download has been made with this product
CanCall == pc \in {"idle", "returned"} /\ entry \in {"none", "get_product"}

Call_get_product(product_id) ==
    /\ CanCall
    /\ product = None
    /\ entry' = "get_product"
    /\ pc' = "listing"
    /\ args' = Args(product_id, FALSE, Root, None, 0)
    /\ retval' = None
    /\ UNCHANGED <<product, viewVars, exc, frame, listing, batch, returned, tasks,
                   requests, dirs, files>>

Call_get_product_with_images(product_id, download_images, image_sizes, max_images) ==
    /\ CanCall
    /\ product = None
    /\ entry' = "get_product_with_images"
    /\ pc' = "listing"
    /\ args' = Args(product_id, download_images, Root, image_sizes, max_images)
    /\ retval' = None
    /\ UNCHANGED <<product, viewVars, exc, frame, listing, batch, returned, tasks,
                   requests, dirs, files>>

\* await self.session.get(url) of get_product is answered
ListingResponse(response) ==
    /\ pc = "listing"
    /\ listing' = Some(response)
    /\ LET a == Val(args)
           r == get_product(a.product_id, response)
       IN  IF r.raised # None
           THEN /\ pc' = "raised"
                /\ exc' = r.raised
                /\ UNCHANGED <<product, retval, frame, batch, returned, tasks, dirs>>
           ELSE /\ product' = r.value
                /\ exc' = exc
                /\ IF entry = "get_product_with_images" /\ a.download_images
                   THEN ClientDownload(entry, Val(r.value), a.folder, a.sizes, a.max_images)
                   ELSE Finish(Returned(r.value, <<>>, <<>>), returned)
    /\ UNCHANGED <<viewVars, entry, args, requests, files>>

Call_download_product_images(image_sizes, max_images) ==
    /\ CanCall
    /\ product # None
    /\ entry' = "download_product_images"
    /\ args' = Args("", TRUE, Root, image_sizes, max_images)
    /\ ClientDownload("download_product_images", Val(product), Root, image_sizes, max_images)
    /\ UNCHANGED <<product, viewVars, exc, listing, requests, files>>

Call_download_images_by_size(sizes, max_images) ==
    /\ CanCall
    /\ product # None
    /\ entry' = "download_images_by_size"
    /\ args' = Args("", TRUE, Root, sizes, max_images)
    /\ RunBySize("download_images_by_size", Val(product), Root, max_images,
                 sizes_or_default(sizes), <<>>, None)
    /\ UNCHANGED <<product, viewVars, exc, listing, requests, files>>

Call_download_all_images(image_size, max_images) ==
    /\ CanCall
    /\ product # None
    /\ entry' = "download_all_images"
    /\ args' = Args("", TRUE, Root, Some(<<image_size>>), max_images)
    /\ RunAll("download_all_images", Val(product), Root, image_size, max_images, None)
    /\ UNCHANGED <<product, viewVars, exc, listing, requests, files>>

\* The event loop runs the tasks gather created in the order it created them:
\* task i runs up to its session.get, which issues the request.
TaskStart(i) ==
    /\ pc = "batch"
    /\ tasks[i].state = "created"
    /\ \A j \in 1..(i - 1) : tasks[j].state # "created"
    /\ tasks' = [tasks EXCEPT ![i].state = "get"]
    /\ requests' = Append(requests, tasks[i].url)
    /\ UNCHANGED <<product, viewVars, entry, pc, args, exc, retval, frame, listing, batch,
                   returned, dirs, files>>

GetAnswers ==
    {[raised |-> TRUE, status |-> 0]} \cup
    {[raised |-> FALSE, status |-> st] : st \in {200, 404, 500}}

TaskResponse(i, answer) ==
    /\ pc = "batch"
    /\ tasks[i].state = "get"
    /\ tasks' = [tasks EXCEPT ![i] = single_image_on_response(tasks[i], answer)]
    /\ UNCHANGED <<product, viewVars, entry, pc, args, exc, retval, frame, listing, batch,
                   returned, requests, dirs, files>>

BodyAnswers == {"read_error", "open_error", "write_error", "ok"}

TaskBody(i, answer) ==
    /\ pc = "batch"
    /\ tasks[i].state = "read"
    /\ LET r == single_image_on_body(tasks[i], answer, files)
       IN  /\ tasks' = [tasks EXCEPT ![i] = r.task]
           /\ files' = r.files
    /\ UNCHANGED <<product, viewVars, entry, pc, args, exc, retval, frame, listing, batch,
                   returned, requests, dirs>>

\* gather resumes download_all_images: lines 384-390, then its caller goes on
Join ==
    /\ pc = "batch"
    /\ gather_done(tasks)
    /\ LET b          == Val(batch)
           a          == Val(args)
           downloaded == downloaded_files(tasks)
           ret        == Some(Activation(b.folder_path, b.image_size, b.max_images,
                                         b.image_urls, tasks, downloaded))
       IN  IF frame = None
           THEN Finish(EntryResult(entry, Val(product), "all", downloaded), ret)
           ELSE LET f == Val(frame)
                IN  RunBySize(entry, Val(product), a.folder, a.max_images, Tail(f.queue),
                              DictSet(f.results, Head(f.queue), downloaded), ret)
    /\ UNCHANGED <<product, viewVars, entry, args, exc, listing, requests, files>>

TaskStep ==
    \E i \in 1..Len(tasks) :
        \/ TaskStart(i)
        \/ \E answer \in GetAnswers : TaskResponse(i, answer)
        \/ \E answer \in BodyAnswers : TaskBody(i, answer)

\* the max_images arguments explored with a sizes argument
MaxImagesArgs(sizes, via_client) ==
    IF sizes = None /\ ~via_client THEN 0..MaxImagesDefaultSet
    ELSE IF sizes = None \/ Len(Val(sizes)) <= 1 THEN 0..MaxImages
    ELSE 0..MaxImagesBySize

Next ==
    \/ \E id \in ProductIds : Call_get_product(id)
    \/ \E download_images \in BOOLEAN, image_sizes \in SizeLists :
           \E max_images \in MaxImagesArgs(image_sizes, TRUE) :
               Call_get_product_with_images("144", download_images, image_sizes, max_images)
    \/ \E response \in ListingResponses : ListingResponse(response)
    \/ \E image_sizes \in SizeLists :
           \E max_images \in MaxImagesArgs(image_sizes, TRUE) :
               Call_download_product_images(image_sizes, max_images)
    \/ \E sizes \in SizeLists :
           \E max_images \in MaxImagesArgs(sizes, FALSE) :
               Call_download_images_by_size(sizes, max_images)
    \/ \E image_size \in {"c516x688", "big"}, max_images \in 0..MaxImages :
           Call_download_all_images(image_size, max_images)
    \/ TaskStep
    \/ Join

Spec == Init /\ [][Next]_vars

\* The event loop runs every task that can run, and the network answers every
\* request (with a response or an error).
FairSpec == Spec /\ WF_vars(TaskStep) /\ WF_vars(Join)

(***************************************************************************)
(* C1-C3: one activation of download_all_images                            *)
(***************************************************************************)
SeqSet(q) == {q[k] : k \in 1..Len(q)}

\* the four named size presets
NamedPresets == {"tm", "c246x328", "c516x688", "big"}

\* C1: of the N URLs handed to download_all_images, k fail (status, transport
\* or write error): the call raises nothing, every one of the N fetches was
\* issued, and the returned list holds exactly the N - k paths of the images
\* that did not fail, and no path of a failed image.
C1_PartialFailure ==
    returned # None =>
        LET r      == Val(returned)
            N      == Len(r.image_urls)
            failed == {k \in 1..N : r.tasks[k].fate # "ok"}
        IN  /\ exc = None
            /\ pc # "raised"
            /\ Len(r.tasks) = N
            /\ \A k \in 1..N : /\ r.tasks[k].url = r.image_urls[k]
                               /\ r.image_urls[k] \in SeqSet(requests)
            /\ Len(r.downloaded_files) = N - Cardinality(failed)
            /\ SeqSet(r.downloaded_files) = {r.tasks[k].file_path : k \in (1..N) \ failed}
            /\ \A k \in failed : r.tasks[k].file_path \notin SeqSet(r.downloaded_files)

\* three URLs of which the second failed: two paths returned
C1_Witness ==
    /\ returned # None
    /\ Len(Val(returned).image_urls) = 3
    /\ Val(returned).tasks[1].fate = "ok"
    /\ Val(returned).tasks[2].fate = "failed"
    /\ Val(returned).tasks[3].fate = "ok"
    /\ Len(Val(returned).downloaded_files) = 2

\* no activation has returned with a task of its batch unsettled, and a running
\* batch holds one task per URL of its size, all launched together
C2_Joined ==
    /\ returned # None =>
           \A k \in 1..Len(Val(returned).tasks) : Val(returned).tasks[k].state = "done"
    /\ pc = "returned" => tasks = <<>> /\ batch = None
    /\ pc = "batch" =>
           /\ Len(tasks) = Len(Val(batch).image_urls)
           /\ \A k \in 1..Len(tasks) : /\ tasks[k].url = Val(batch).image_urls[k]
                                       /\ tasks[k].url.size = Val(batch).image_size

\* C2: the tasks of one size are launched as one batch and download_all_images
\* returns only after every task of the batch has settled; when the event loop
\* runs the tasks and each settles, the call eventually returns.
C2_BatchJoin == [](C2_Joined) /\ (pc = "batch" ~> pc = "returned")

\* a batch of two or more tasks has been joined, one of them failed
C2_Witness ==
    /\ pc = "returned"
    /\ returned # None
    /\ Len(Val(returned).tasks) >= 2
    /\ \E k \in 1..Len(Val(returned).tasks) : Val(returned).tasks[k].fate # "ok"
    /\ \E k \in 1..Len(Val(returned).tasks) : Val(returned).tasks[k].fate = "ok"

\* the number of image URLs of the product held
NumImageUrls ==
    LET p == Val(product)
    IN  IF p.id = None \/ p.pics <= 0 THEN 0 ELSE Min(p.pics, 14)

RequestsFor(size) == {k \in 1..Len(requests) : requests[k].size = size}

\* C3: the cap is applied to the URL list before any request: for every
\* max_images >= 0, at most min(max_images, number of image URLs) fetches are
\* issued for a size, and none (and no directory) when that number is 0.
C3_CapBeforeFetch ==
    (product # None /\ args # None) =>
        LET cap == Min(Val(args).max_images, NumImageUrls)
        IN  /\ \A size \in NamedPresets : Cardinality(RequestsFor(size)) <= cap
            /\ pc = "batch" => Len(tasks) = cap
            /\ cap = 0 => requests = <<>> /\ dirs = {}

\* three images, max_images = 1: the call has returned after one fetch
C3_Witness ==
    /\ entry = "download_all_images"
    /\ pc = "returned"
    /\ Val(product).pics = 3
    /\ Val(args).max_images = 1
    /\ Len(requests) = 1
    /\ Len(Val(retval).downloaded_files) = 1

(***************************************************************************)
(* C4: the failures of get_product                                         *)
(***************************************************************************)
\* Python's general-purpose built-in exception classes
GenericClasses == {"Exception", "ValueError", "RuntimeError", "TypeError", "KeyError"}

\* the transport failures of the listing fetch
TransportClasses == {"Timeout", "ConnectionError", "JSONDecodeError"}

\* the listing was decoded and its products list is empty or missing
ListingEmpty ==
    /\ listing # None
    /\ Val(listing).transport = None
    /\ Val(listing).json # None
    /\ Val(Val(listing).json).products \in {None, Some(<<>>)}

\* C4: on an empty or missing products list get_product fails with a NotFound
\* condition that carries the requested identifier and is no generic
\* exception, and that a caller can tell from a transport failure (timeout,
\* connection reset, malformed body): a handler for it catches none of those.
C4_NotFoundDistinct ==
    (pc = "raised" /\ ListingEmpty) =>
        LET e == Val(exc)
        IN  /\ e.product_id = Some(Val(args).product_id)
            /\ e.cls \notin GenericClasses
            /\ \A t \in TransportClasses : e.cls \notin Mro(t)

(***************************************************************************)
(* C10: the sizes downloaded when the caller names none                    *)
(***************************************************************************)
\* the public coroutine e has returned from a download asked for without
\* sizes, of a product that has images
NoSizesGiven(e) ==
    /\ entry = e
    /\ pc = "returned"
    /\ Val(args).sizes = None
    /\ Val(args).download_images
    /\ Val(args).max_images > 0
    /\ NumImageUrls > 0

\* every size of sizeset was requested, each into its own subdirectory of the
\* root folder, holding files {id}_{index}.webp of that size and index
SubdirLayout(sizeset) ==
    /\ {requests[k].size : k \in 1..Len(requests)} = sizeset
    /\ dirs = {Root} \cup {Append(Root, size) : size \in sizeset}
    /\ \A f \in files :
           \E size \in sizeset, i \in 1..14 :
               /\ f.path = PathJoin(Append(Root, size), FileName(Val(Val(product).id), i))
               /\ f.content.of.size = size
               /\ f.content.of.index = i

\* one size was requested, into the root folder itself
FlatLayout(size) ==
    /\ {requests[k].size : k \in 1..Len(requests)} = {size}
    /\ dirs = {Root}
    /\ \A f \in files :
           \E i \in 1..14 :
               /\ f.path = PathJoin(Root, FileName(Val(Val(product).id), i))
               /\ f.content.of.size = size
               /\ f.content.of.index = i

\* C10 as stated: with no size given, download_images_by_size and the client
\* entry points get_product_with_images (download_images set) and
\* download_product_images all download the four presets tm, c246x328,
\* c516x688 and big, each into its own subdirectory, as {id}_{index}.webp.
C10_AllEntriesDefaultSet ==
    \A e \in {"download_images_by_size", "get_product_with_images", "download_product_images"} :
        NoSizesGiven(e) => SubdirLayout(NamedPresets)

\* C10 as amended: download_images_by_size without sizes downloads the four
\* presets, each into its own subdirectory, as {id}_{index}.webp; the client
\* entry points without sizes download the one size c516x688 into the root
\* folder itself, as {id}_{index}.webp.
C10_DefaultSizes ==
    /\ NoSizesGiven("download_images_by_size") => SubdirLayout(NamedPresets)
    /\ \A e \in {"get_product_with_images", "download_product_images"} :
           NoSizesGiven(e) => FlatLayout("c516x688")

\* download_images_by_size without sizes has returned four lists, with a file
\* written under big
C10_Witness ==
    /\ NoSizesGiven("download_images_by_size")
    /\ Len(Val(retval).download_info) = 4
    /\ \E f \in files : f.path.dir = Append(Root, "big") /\ f.content.complete

(***************************************************************************)
(* C11: the batches of download_images_by_size                             *)
(***************************************************************************)
\* the default size list, in its order
PresetOrder == <<"tm", "c246x328", "c516x688", "big">>

\* the size list a running or returned download by sizes works through
SizeOrder == IF Val(args).sizes = None THEN PresetOrder ELSE Val(Val(args).sizes)

\* download_images_by_size was entered by the public coroutine
BySizeEntered ==
    /\ args # None
    /\ product # None
    /\ \/ entry = "download_images_by_size"
       \/ /\ entry \in {"get_product_with_images", "download_product_images"}
          /\ Val(args).download_images
          /\ Val(args).sizes \notin {None, Some(<<>>)}

\* how many sizes of the list have been started
SizesStarted ==
    IF frame # None THEN Len(SizeOrder) - Len(Val(frame).queue) + 1
    ELSE IF pc = "returned" THEN Len(SizeOrder)
    ELSE 0

PositionIn(list, size) == CHOOSE k \in 1..Len(list) : list[k] = size

InFlight(task) == task.state \in {"get", "read"}

\* the sizes are worked through in list order: the running batch is that of the
\* size reached, requests and subdirectories exist only for sizes up to it,
\* requests are grouped by size in list order, and in-flight tasks are all of it
C11_InOrder ==
    BySizeEntered =>
        LET L == SizeOrder
            j == SizesStarted
        IN  /\ frame # None =>
                   /\ Val(frame).queue = SubSeq(L, j, Len(L))
                   /\ Val(batch).image_size = L[j]
                   /\ Val(batch).folder_path = Append(Root, L[j])
                   /\ \A k \in 1..Len(tasks) : InFlight(tasks[k]) => tasks[k].url.size = L[j]
            /\ \A k \in 1..Len(requests) : requests[k].size \in {L[i] : i \in 1..j}
            /\ \A a, b \in 1..Len(requests) :
                   a < b => PositionIn(L, requests[a].size) <= PositionIn(L, requests[b].size)
            /\ dirs \subseteq {Root} \cup {Append(Root, L[i]) : i \in 1..j}

\* a step that launches the batch of the next size, creates a subdirectory or
\* issues a request of another size, is taken with no task left unsettled
C11_Step ==
    (BySizeEntered /\ frame # None) =>
        /\ (batch' # batch \/ dirs' # dirs) => \A k \in 1..Len(tasks) : tasks[k].state = "done"
        /\ requests' # requests =>
               /\ requests'[Len(requests')].size = Val(batch).image_size
               /\ batch' = batch

\* C11: in download_images_by_size the size batches run strictly one after
\* another in the order of the size list: no fetch of the next size is issued
\* and its subdirectory is not created before every task of the batch before it
\* has settled, so tasks of two sizes are never in flight together.
C11_SequentialBatches == [](C11_InOrder) /\ [][C11_Step]_vars

\* sizes big then tm: every task of big has settled, the batch of tm runs with
\* a fetch in flight
C11_Witness ==
    /\ entry = "download_images_by_size"
    /\ Val(args).sizes = Some(<<"big", "tm">>)
    /\ frame # None
    /\ Val(batch).image_size = "tm"
    /\ returned # None
    /\ Val(returned).image_size = "big"
    /\ Len(Val(returned).tasks) = 2
    /\ \E k \in 1..Len(tasks) : InFlight(tasks[k])
    /\ Append(Root, "tm") \in dirs

(***************************************************************************)
(* C12: the list download_all_images returns                                *)
(***************************************************************************)
\* C12: whatever order the fetches of a batch complete in, the returned list
\* is in increasing image index (the URL order with the failed ones removed),
\* holds no path twice, and every returned path {id}_{i}.webp was written with
\* the payload fetched from the URL of image index i.
C12_OrderedResult ==
    returned # None =>
        LET r   == Val(returned)
            lst == r.downloaded_files
        IN  /\ \A a, b \in 1..Len(lst) : a < b => lst[a].name.index < lst[b].name.index
            /\ \A a, b \in 1..Len(lst) : a # b => lst[a] # lst[b]
            /\ \A a \in 1..Len(lst) :
                   LET i == lst[a].name.index
                   IN  /\ i \in 1..Len(r.image_urls)
                       /\ r.image_urls[i].index = i
                       /\ r.tasks[i].fate = "ok"
                       /\ lst[a].dir = r.folder_path
                       /\ lst[a].name.id = r.image_urls[i].id
                       /\ [path    |-> lst[a],
                           content |-> [of |-> r.image_urls[i], complete |-> TRUE]] \in files

\* three URLs, the second failed: the list is {id}_1, {id}_3 and both files
\* hold the payloads of images 1 and 3
C12_Witness ==
    /\ returned # None
    /\ Len(Val(returned).image_urls) = 3
    /\ Len(Val(returned).downloaded_files) = 2
    /\ Val(returned).downloaded_files[1].name.index = 1
    /\ Val(returned).downloaded_files[2].name.index = 3
    /\ \E f \in files : f.path = Val(returned).downloaded_files[2] /\ f.content.of.index = 3

====
